---- MODULE Spec2Model ----
(***************************************************************************)
(* Model of src/streamlit_kpi_app.py: the e-commerce KPI dashboard.        *)
(*                                                                         *)
(* The script is re-executed from top to bottom on every UI interaction.   *)
(* One action of the model is one interaction followed by the whole        *)
(* re-execution of the script.                                             *)
(*                                                                         *)
(* Units.  Annual currency amounts (total_annual_spend, total_annual_sales)*)
(* are counted in units of 100,000 (a tenth of a million), so that         *)
(* 1_000_000 is Million = 10 units.  ROAS values are counted in hundredths *)
(* (2.5x is 250).  Weekly amounts of the baseline table (weekly_spend,     *)
(* sales) are counted in units of 25,000 dollars (WEEKLY_UNIT).            *)
(* All table values of the model are whole numbers of these units, hence   *)
(* the float comparisons of the script are exact integer comparisons: a    *)
(* comparison x >= lo * 1_000_000 / 52 is written 52 * x >= lo * 1_000_000,*)
(* and x >= t * 0.99 is written 100 * x >= 99 * t.                         *)
(* Columns of the tables that the script only passes on to charts or       *)
(* formats for display (traffic, conversion rate, AOV, transactions,       *)
(* marginal_roas of the annual table, sales_increase) are named in the     *)
(* column sets and carry no value in the rows.                             *)
(***************************************************************************)
EXTENDS Integers, Sequences, FiniteSets

\* ------------------------------------------------------------------------
\* Bounds of the model
\* ------------------------------------------------------------------------
MaxRows == 2
NRoasChoices == 4

\* ------------------------------------------------------------------------
\* Program constants
\* ------------------------------------------------------------------------
Million == 10
Baseline137 == 1372
NaN == -1
WEEKS == 52
WEEKLY_UNIT == 25000
DOLLARS_PER_MILLION == 1000000
PCT_LOW == 99
PCT_HIGH == 101
ROAS_OPTIONS == <<0, 100, 150, 200, 250, 300, 350, 400>>
ANALYSIS_TYPES == <<"Annual Overview", "Marginal Returns", "Scenario Comparison", "Data Table">>
THRESHOLDS_137M == <<300, 250, 200, 150, 100, 50>>
THRESHOLDS_WEEKLY == <<400, 350, 300, 250, 200, 150, 100>>
SLIDER_STEP == 5
ANNUAL_COLUMNS == {"total_annual_spend", "total_annual_sales", "total_annual_traffic",
                   "total_annual_transactions", "blended_roas", "blended_conversion_rate",
                   "blended_aov", "marginal_roas"}
BASELINE_COLUMNS == {"weekly_spend", "sales", "marginal_roas", "sales_increase"}
COL_137M == "marginal_roas_from_137m"
DISPLAY_COLUMNS == {"Annual Spend ($M)", "Annual Sales ($M)", "ROAS", "Conv Rate (%)",
                    "AOV ($)", "Annual Traffic", "Marginal ROAS"}
DISPLAY_COL_137M == "Marginal ROAS from $137M"
MSG_NOT_FOUND == "Pipeline data not found. Please run the KPI modeling pipeline first."
MSG_UNCAUGHT == "uncaught exception"
MSG_NO_MATCH == "No scenarios match your filters. Please adjust the controls."

VARIABLES
    streamlit_data,     \* the persisted file: [status, annual_projections, baseline_projections]
    annual_df,          \* loaded Scenario Table  [columns, rows]
    baseline_df,        \* loaded Baseline Table  [columns, rows]
    spend_range,        \* slider value <<lo, hi>> in millions
    min_roas,           \* selectbox value, hundredths
    analysis_type,      \* radio value
    scenario_options,   \* options of the three scenario selectboxes
    scenario_idx,       \* selected option index (0-based) of each scenario selectbox
    filtered_df,        \* [columns, rows]
    summary,            \* <<>> or <<[max_sales, best_roas, optimal_spend]>>
    metric_cards,       \* the st.metric calls of the key metrics row
    baseline_filtered,  \* [columns, rows]
    marginal_data,      \* the table the threshold loop scans
    thresholds_data,    \* list of threshold rows
    scenarios,          \* list of scenario rows
    display_df,         \* [columns, rows]
    messages,           \* st.error / st.warning texts shown
    rendered,           \* the sections of the script evaluated in this run, in order
    outcome             \* "not_run", "ok", "stopped" (st.stop) or "exception"

vars == <<streamlit_data, annual_df, baseline_df, spend_range, min_roas, analysis_type,
          scenario_options, scenario_idx, filtered_df, summary, metric_cards,
          baseline_filtered, marginal_data, thresholds_data, scenarios, display_df,
          messages, rendered, outcome>>

\* ------------------------------------------------------------------------
\* Helpers
\* ------------------------------------------------------------------------
Abs(x) == IF x < 0 THEN -x ELSE x
Min2(a, b) == IF a < b THEN a ELSE b
Range(s) == {s[i] : i \in 1..Len(s)}
SeqMax(s) == CHOOSE m \in Range(s) : \A x \in Range(s) : x <= m
SeqMin(s) == CHOOSE m \in Range(s) : \A x \in Range(s) : m <= x
Column(rows, c) == [i \in 1..Len(rows) |-> rows[i][c]]
EmptyFrame == [columns |-> {}, rows |-> <<>>]

\* f"${x/1_000_000:.1f}M" of an amount that is a whole number of tenths of a million
Money1(x) == [neg |-> x < 0, whole |-> Abs(x) \div Million, tenth |-> Abs(x) % Million]
\* f"{x:.2f}x" of a ratio that is a whole number of hundredths
Ratio2(x) == [whole |-> x \div 100, hundredth |-> x % 100]
\* f"{threshold:.1f}x" of a threshold that is a whole number of tenths
Ratio1(x) == [whole |-> x \div 100, tenth |-> (x % 100) \div 10]
\* the number a Ratio2 text reads as, in hundredths
Ratio2Value(t) == t.whole * 100 + t.hundredth
Ratio1Value(t) == t.whole * 100 + t.tenth * 10
Money1Value(t) == IF t.neg THEN -(t.whole * Million + t.tenth) ELSE t.whole * Million + t.tenth

\* Series.round(-6): to the nearest million, halves to the even million
RoundMillion(x) ==
    LET q == x \div Million
        r == x % Million
    IN  IF 2 * r < Million THEN q * Million
        ELSE IF 2 * r > Million THEN (q + 1) * Million
        ELSE IF q % 2 = 0 THEN q * Million ELSE (q + 1) * Million

\* Series.unique(): distinct values in order of first appearance
RECURSIVE Unique(_)
Unique(s) ==
    IF s = <<>> THEN <<>>
    ELSE LET front == Unique(SubSeq(s, 1, Len(s) - 1))
             last == s[Len(s)]
         IN  IF last \in Range(front) THEN front ELSE Append(front, last)

\* ------------------------------------------------------------------------
\* Data loader (lines 29-44)
\* ------------------------------------------------------------------------
\* variant: a failed load falls back to empty tables and the run goes on
LoadPipelineDataSwallow(file) ==
    [status |-> "ok", messages |-> <<>>,
     annual_df |-> IF file.status = "ok" THEN file.annual_projections
                   ELSE [columns |-> ANNUAL_COLUMNS,
                         rows |-> <<[total_annual_spend |-> 0, total_annual_sales |-> 0,
                                     blended_roas |-> 0]>>],
     baseline_df |-> IF file.status = "ok" THEN file.baseline_projections
                     ELSE [columns |-> BASELINE_COLUMNS, rows |-> <<>>]]

LoadPipelineData(file) ==
    IF file.status = "ok"
    THEN [status |-> "ok", messages |-> <<>>,
          annual_df |-> file.annual_projections, baseline_df |-> file.baseline_projections]
    ELSE IF file.status = "absent"
    THEN \* FileNotFoundError: st.error(...); st.stop()
         [status |-> "stopped", messages |-> <<MSG_NOT_FOUND>>,
          annual_df |-> EmptyFrame, baseline_df |-> EmptyFrame]
    ELSE \* any other error of open() or pickle.load() is not caught
         \* and ends the run; the framework shows the exception
         [status |-> "exception", messages |-> <<MSG_UNCAUGHT>>,
          annual_df |-> EmptyFrame, baseline_df |-> EmptyFrame]

\* ------------------------------------------------------------------------
\* Sidebar controls (lines 52-75)
\* ------------------------------------------------------------------------
SliderMin(annual) == SeqMin(Column(annual.rows, "total_annual_spend")) \div Million
SliderMax(annual) == SeqMax(Column(annual.rows, "total_annual_spend")) \div Million
DefaultSpendRange(annual) == <<0, SliderMax(annual)>>
DefaultMinRoas == ROAS_OPTIONS[1]
DefaultAnalysisType == ANALYSIS_TYPES[1]

\* ------------------------------------------------------------------------
\* Filter Engine (lines 77-82)
\* ------------------------------------------------------------------------
\* variant: exclusive lower spend bound
SpendRoasMaskExclusive(r, sr, mr) ==
    /\ r.total_annual_spend > sr[1] * Million
    /\ r.total_annual_spend <= sr[2] * Million
    /\ r.blended_roas >= mr

SpendRoasMask(r, sr, mr) ==
    /\ r.total_annual_spend >= sr[1] * Million
    /\ r.total_annual_spend <= sr[2] * Million
    /\ r.blended_roas >= mr

\* variant: the first matching record is lost
FilterEngineDropFirst(df, sr, mr) ==
    LET kept == SelectSeq(df.rows, LAMBDA r : SpendRoasMask(r, sr, mr))
    IN  [columns |-> df.columns, rows |-> IF kept = <<>> THEN kept ELSE Tail(kept)]

FilterEngine(df, sr, mr) ==
    [columns |-> df.columns,
     rows |-> SelectSeq(df.rows, LAMBDA r : SpendRoasMask(r, sr, mr))]

\* ------------------------------------------------------------------------
\* Metric Summarizer: the key metrics row (lines 92-127)
\* ------------------------------------------------------------------------
\* Series.idxmax(): position of the first occurrence of the maximum
RECURSIVE IdxMaxFrom(_, _, _)
IdxMaxFrom(s, i, best) ==
    IF i > Len(s) THEN best
    ELSE IdxMaxFrom(s, i + 1, IF s[i] > s[best] THEN i ELSE best)
\* variant: position of the last occurrence of the maximum
IdxMaxLast(s) == CHOOSE i \in 1..Len(s) :
    /\ \A j \in 1..Len(s) : s[j] <= s[i]
    /\ \A j \in (i + 1)..Len(s) : s[j] < s[i]

IdxMax(s) == IdxMaxFrom(s, 2, 1)

Summarize(filtered) ==
    [max_sales |-> SeqMax(Column(filtered.rows, "total_annual_sales")),
     best_roas |-> SeqMax(Column(filtered.rows, "blended_roas")),
     optimal_spend |->
        filtered.rows[IdxMax(Column(filtered.rows, "blended_roas"))].total_annual_spend]

KeyMetrics(annual, filtered) ==
    LET count == [label |-> "Total Scenarios", value |-> Len(filtered.rows),
                  delta |-> Len(filtered.rows) - Len(annual.rows)]
    IN  IF filtered.rows = <<>>
        THEN [summary |-> <<>>, cards |-> <<count>>]
        ELSE LET m == Summarize(filtered)
             IN  [summary |-> <<m>>,
                  cards |-> <<count,
                      [label |-> "Max Annual Sales", value |-> Money1(m.max_sales),
                       delta |-> Money1(m.max_sales
                                   - SeqMin(Column(annual.rows, "total_annual_sales")))],
                      [label |-> "Best ROAS", value |-> Ratio2(m.best_roas),
                       delta |-> Ratio2(m.best_roas
                                   - SeqMin(Column(annual.rows, "blended_roas")))],
                      [label |-> "Optimal Spend", value |-> Money1(m.optimal_spend),
                       delta |-> "Highest ROAS"]>>]

\* ------------------------------------------------------------------------
\* Marginal Returns: baseline view and threshold analysis (lines 211-354)
\* ------------------------------------------------------------------------
BaselineMask(r, sr) ==
    /\ r.weekly_spend * WEEKLY_UNIT * WEEKS >= sr[1] * DOLLARS_PER_MILLION
    /\ r.weekly_spend * WEEKLY_UNIT * WEEKS <= sr[2] * DOLLARS_PER_MILLION

BaselineFilter(df, sr) ==
    [columns |-> df.columns, rows |-> SelectSeq(df.rows, LAMBDA r : BaselineMask(r, sr))]

\* DataFrame.dropna(subset=['marginal_roas_from_137m'])
DropNa137(df) ==
    [columns |-> df.columns,
     rows |-> SelectSeq(df.rows, LAMBDA r : r.marginal_roas_from_137m # NaN)]

\* series < threshold: a comparison with NaN is False
\* variant: a record equal to the threshold counts as below it
BelowOrEqual(x, threshold) == x # NaN /\ x <= threshold

Below(x, threshold) == x # NaN /\ x < threshold

\* variant: the last record below the threshold
LastBelow(below_threshold) == below_threshold[Len(below_threshold)]

\* below_threshold.iloc[0]
FirstBelow(below_threshold) == below_threshold[1]

Row137(threshold, first_below) ==
    [Marginal_ROAS_Threshold |-> Ratio1(threshold),
     Annual_Spend |-> Money1(first_below.total_annual_spend),
     Incremental_from_137M |-> Money1(first_below.total_annual_spend - Baseline137),
     Annual_Sales |-> Money1(first_below.total_annual_sales),
     Blended_ROAS |-> Ratio2(first_below.blended_roas)]

RowWeekly(threshold, first_below) ==
    [ROAS_Threshold |-> Ratio1(threshold),
     Weekly_Spend |-> first_below.weekly_spend * WEEKLY_UNIT,
     Annual_Spend |-> first_below.weekly_spend * WEEKLY_UNIT * WEEKS,
     Annual_Sales |-> first_below.sales * WEEKLY_UNIT * WEEKS]

RECURSIVE Scan137(_, _)
Scan137(rows, thresholds) ==
    IF thresholds = <<>> THEN <<>>
    ELSE LET threshold == Head(thresholds)
             below_threshold ==
                 SelectSeq(rows, LAMBDA r : Below(r.marginal_roas_from_137m, threshold))
             rest == Scan137(rows, Tail(thresholds))
         IN  IF below_threshold # <<>>
             THEN <<Row137(threshold, FirstBelow(below_threshold))>> \o rest
             ELSE rest

RECURSIVE ScanWeekly(_, _)
ScanWeekly(rows, thresholds) ==
    IF thresholds = <<>> THEN <<>>
    ELSE LET threshold == Head(thresholds)
             below_threshold == SelectSeq(rows, LAMBDA r : Below(r.marginal_roas, threshold))
             rest == ScanWeekly(rows, Tail(thresholds))
         IN  IF below_threshold # <<>>
             THEN <<RowWeekly(threshold, FirstBelow(below_threshold))>> \o rest
             ELSE rest

MarginalReturns(filtered, baseline, sr) ==
    IF filtered.rows = <<>>
    THEN [messages |-> <<MSG_NO_MATCH>>, baseline_filtered |-> EmptyFrame,
          marginal_data |-> EmptyFrame, thresholds_data |-> <<>>]
    ELSE LET has_marginal_137m == COL_137M \in filtered.columns
             bf == BaselineFilter(baseline, sr)
         IN  IF has_marginal_137m
             THEN [messages |-> <<>>, baseline_filtered |-> bf,
                   marginal_data |-> DropNa137(filtered),
                   thresholds_data |-> Scan137(DropNa137(filtered).rows, THRESHOLDS_137M)]
             ELSE [messages |-> <<>>, baseline_filtered |-> bf,
                   marginal_data |-> EmptyFrame,
                   thresholds_data |-> ScanWeekly(bf.rows, THRESHOLDS_WEEKLY)]

\* ------------------------------------------------------------------------
\* Scenario Comparison (lines 356-408)
\* ------------------------------------------------------------------------
ScenarioOptions(filtered) ==
    Unique([i \in 1..Len(filtered.rows) |-> RoundMillion(filtered.rows[i].total_annual_spend)])

\* index= of the three selectboxes: 0, min(n-1, 5), min(n-1, 10)
DefaultScenarioIdx(options) ==
    <<0, Min2(Len(options) - 1, 5), Min2(Len(options) - 1, 10)>>

InBand(r, spend) ==
    /\ 100 * r.total_annual_spend >= PCT_LOW * spend
    /\ 100 * r.total_annual_spend <= PCT_HIGH * spend

ScenarioRow(i, scenario_data) ==
    [Scenario |-> i,
     Annual_Spend |-> Money1(scenario_data.total_annual_spend),
     Annual_Sales |-> Money1(scenario_data.total_annual_sales),
     ROAS |-> Ratio2(scenario_data.blended_roas)]

\* the loop of lines 389-404 from scenario i on: [rows, failed]; .iloc[0] of an
\* empty selection raises IndexError and ends the loop
RECURSIVE CompareFrom(_, _, _)
CompareFrom(filtered, spends, i) ==
    IF i > Len(spends) THEN [rows |-> <<>>, failed |-> FALSE]
    ELSE LET matches == SelectSeq(filtered.rows, LAMBDA r : InBand(r, spends[i]))
         IN  IF matches = <<>> THEN [rows |-> <<>>, failed |-> TRUE]
             ELSE LET rest == CompareFrom(filtered, spends, i + 1)
                  IN  [rows |-> <<ScenarioRow(i, matches[1])>> \o rest.rows,
                       failed |-> rest.failed]

\* prev: the options and selection of the selectboxes in the previous run.  A
\* selectbox keeps its selection only while it is rendered with the same options.
ScenarioComparison(filtered, prev) ==
    LET options == ScenarioOptions(filtered)
        sel == IF prev.idx # <<>> /\ prev.options = options
               THEN prev.idx ELSE DefaultScenarioIdx(options)
    IN  IF options = <<>>
        THEN \* every selectbox returns None; None * 0.99 raises TypeError
             [options |-> options, idx |-> <<>>, scenarios |-> <<>>, failed |-> TRUE]
        ELSE LET spends == [k \in 1..3 |-> options[sel[k] + 1]]
                 c == CompareFrom(filtered, spends, 1)
             IN  [options |-> options, idx |-> sel, scenarios |-> c.rows,
                  failed |-> c.failed]

\* ------------------------------------------------------------------------
\* Data Table (lines 410-450)
\* ------------------------------------------------------------------------
DisplayRow(r, has137) ==
    IF has137
    THEN [total_annual_spend |-> r.total_annual_spend,
          total_annual_sales |-> r.total_annual_sales,
          blended_roas |-> r.blended_roas,
          marginal_roas_from_137m |-> r.marginal_roas_from_137m,
          Annual_Spend_M |-> Money1(r.total_annual_spend),
          Annual_Sales_M |-> Money1(r.total_annual_sales),
          ROAS |-> Ratio2(r.blended_roas),
          Marginal_ROAS_from_137M |-> r.marginal_roas_from_137m]
    ELSE [total_annual_spend |-> r.total_annual_spend,
          total_annual_sales |-> r.total_annual_sales,
          blended_roas |-> r.blended_roas,
          Annual_Spend_M |-> Money1(r.total_annual_spend),
          Annual_Sales_M |-> Money1(r.total_annual_sales),
          ROAS |-> Ratio2(r.blended_roas)]

\* display_df = filtered_df.copy() with the display columns added to the copy
DisplayFrame(filtered) ==
    LET has137 == COL_137M \in filtered.columns
    IN  [columns |-> filtered.columns \cup DISPLAY_COLUMNS
                        \cup (IF has137 THEN {DISPLAY_COL_137M} ELSE {}),
         rows |-> [i \in 1..Len(filtered.rows) |-> DisplayRow(filtered.rows[i], has137)]]

\* ------------------------------------------------------------------------
\* The script, top to bottom.  env holds the script's names; every section
\* maps the names before it to the names after it.
\* ------------------------------------------------------------------------
BlankEnv(sr, mr, at) ==
    [annual_df |-> EmptyFrame, baseline_df |-> EmptyFrame,
     spend_range |-> sr, min_roas |-> mr, analysis_type |-> at,
     scenario_options |-> <<>>, scenario_idx |-> <<>>,
     filtered_df |-> EmptyFrame, summary |-> <<>>, metric_cards |-> <<>>,
     baseline_filtered |-> EmptyFrame, marginal_data |-> EmptyFrame,
     thresholds_data |-> <<>>, scenarios |-> <<>>, display_df |-> EmptyFrame,
     messages |-> <<>>, rendered |-> <<"set_page_config">>, outcome |-> "ok"]

\* lines 29-44
LoadSection(env, file) ==
    LET data == LoadPipelineData(file)
    IN  [env EXCEPT !.annual_df = data.annual_df, !.baseline_df = data.baseline_df,
                    !.messages = @ \o data.messages,
                    !.rendered = Append(@, "load_pipeline_data"),
                    !.outcome = data.status]

\* lines 50-82: the widgets return the values held for them; the filter follows
FilterSection(env) ==
    [env EXCEPT !.filtered_df = FilterEngine(env.annual_df, env.spend_range, env.min_roas),
                !.rendered = @ \o <<"sidebar", "filter">>]

\* lines 88-127
KeyMetricsSection(env) ==
    LET k == KeyMetrics(env.annual_df, env.filtered_df)
    IN  [env EXCEPT !.summary = k.summary, !.metric_cards = k.cards,
                    !.rendered = Append(@, "key_metrics")]

\* lines 133-209
AnnualOverviewSection(env) ==
    [env EXCEPT !.messages = IF env.filtered_df.rows = <<>>
                             THEN Append(@, MSG_NO_MATCH) ELSE @,
                !.rendered = Append(@, "annual_overview")]

\* lines 211-354
MarginalReturnsSection(env) ==
    LET m == MarginalReturns(env.filtered_df, env.baseline_df, env.spend_range)
    IN  [env EXCEPT !.messages = @ \o m.messages,
                    !.baseline_filtered = m.baseline_filtered,
                    !.marginal_data = m.marginal_data,
                    !.thresholds_data = m.thresholds_data,
                    !.rendered = Append(@, "marginal_returns")]

\* lines 356-408
ScenarioComparisonSection(env, prev) ==
    LET c == ScenarioComparison(env.filtered_df, prev)
    IN  [env EXCEPT !.scenario_options = c.options, !.scenario_idx = c.idx,
                    !.scenarios = c.scenarios,
                    !.messages = IF c.failed THEN Append(@, MSG_UNCAUGHT) ELSE @,
                    !.rendered = Append(@, "scenario_comparison"),
                    !.outcome = IF c.failed THEN "exception" ELSE "ok"]

\* variant: the display columns are written to the loaded table itself
DataTableSectionInPlace(env) ==
    IF env.filtered_df.rows = <<>>
    THEN [env EXCEPT !.messages = Append(@, MSG_NO_MATCH),
                     !.rendered = Append(@, "data_table")]
    ELSE [env EXCEPT !.annual_df = DisplayFrame(env.annual_df),
                     !.display_df = DisplayFrame(env.annual_df),
                     !.rendered = Append(@, "data_table")]

\* lines 410-450
DataTableSection(env) ==
    IF env.filtered_df.rows = <<>>
    THEN [env EXCEPT !.messages = Append(@, MSG_NO_MATCH),
                     !.rendered = Append(@, "data_table")]
    ELSE [env EXCEPT !.display_df = DisplayFrame(env.filtered_df),
                     !.rendered = Append(@, "data_table")]

\* lines 456-469
FooterSection(env) ==
    IF env.outcome = "ok" THEN [env EXCEPT !.rendered = Append(@, "footer")] ELSE env

AnalysisSection(env, prev) ==
    IF env.analysis_type = ANALYSIS_TYPES[1] THEN AnnualOverviewSection(env)
    ELSE IF env.analysis_type = ANALYSIS_TYPES[2] THEN MarginalReturnsSection(env)
    ELSE IF env.analysis_type = ANALYSIS_TYPES[3] THEN ScenarioComparisonSection(env, prev)
    ELSE DataTableSection(env)

\* One execution of the script.  use_defaults: no widget holds a value yet.
\* prev: [options, idx] of the scenario selectboxes as the previous run left them.
Script(file, use_defaults, sr, mr, at, prev) ==
    LET loaded == LoadSection(BlankEnv(sr, mr, at), file)
    IN  IF loaded.outcome # "ok" THEN loaded
        ELSE LET widgets ==
                     IF use_defaults
                     THEN [loaded EXCEPT !.spend_range = DefaultSpendRange(loaded.annual_df),
                                         !.min_roas = DefaultMinRoas,
                                         !.analysis_type = DefaultAnalysisType]
                     ELSE loaded
             IN  FooterSection(AnalysisSection(KeyMetricsSection(FilterSection(widgets)), prev))

\* ------------------------------------------------------------------------
\* Input families: the contents of streamlit_data.pkl
\* ------------------------------------------------------------------------
SpendVals == {4, 1000, 2000}
RoasVals == {150, 200, 250}
ScanSpendVals == {4, 1500, 2000}
ScanRoasVals == {150, 300}
MarginalVals == {NaN, 200, 280}
WeeklySpendVals == {39, 77, 154}
WeeklyMarginalVals == {NaN, 200, 380}
SliderStops == {0, 100, 200}

\* blended_roas = sales / spend
AnnualRow(s, b) ==
    [total_annual_spend |-> s, total_annual_sales |-> (s * b) \div 100, blended_roas |-> b]
AnnualRow137(s, b, m) ==
    [total_annual_spend |-> s, total_annual_sales |-> (s * b) \div 100, blended_roas |-> b,
     marginal_roas_from_137m |-> m]
BaselineRow(w, m) == [weekly_spend |-> w, sales |-> 3 * w, marginal_roas |-> m]

\* tables of 1..MaxRows rows of recs, ordered by ascending spend
TablesOf(recs, key, strict) ==
    {t \in UNION {[1..n -> recs] : n \in 1..MaxRows} :
        \A i \in 1..(Len(t) - 1) :
            IF strict THEN t[i][key] < t[i + 1][key] ELSE t[i][key] <= t[i + 1][key]}

AnnualFrame(rows) == [columns |-> ANNUAL_COLUMNS, rows |-> rows]
AnnualFrame137(rows) == [columns |-> ANNUAL_COLUMNS \cup {COL_137M}, rows |-> rows]
BaselineFrame(rows) == [columns |-> BASELINE_COLUMNS, rows |-> rows]

FixedBaseline == BaselineFrame(<<BaselineRow(39, NaN), BaselineRow(77, 380), BaselineRow(154, 200)>>)
FixedAnnual == AnnualFrame(<<AnnualRow(4, 250), AnnualRow(1000, 250), AnnualRow(2000, 200)>>)

FailedFiles ==
    {[status |-> st, annual_projections |-> EmptyFrame, baseline_projections |-> EmptyFrame] :
        st \in {"absent", "unreadable"}}
ReadableFile(annual, baseline) ==
    [status |-> "ok", annual_projections |-> annual, baseline_projections |-> baseline]

\* scenario tables without the optional column
PlainFiles ==
    {ReadableFile(AnnualFrame(t), FixedBaseline) :
        t \in TablesOf({AnnualRow(s, b) : s \in SpendVals, b \in RoasVals},
                       "total_annual_spend", FALSE)}
\* scenario tables with marginal_roas_from_137m
Files137 ==
    {ReadableFile(AnnualFrame137(t), FixedBaseline) :
        t \in TablesOf({AnnualRow137(s, b, m) :
                           s \in ScanSpendVals, b \in ScanRoasVals, m \in MarginalVals},
                       "total_annual_spend", TRUE)}
\* baseline tables scanned when the optional column is absent
WeeklyFiles ==
    {ReadableFile(FixedAnnual, BaselineFrame(t)) :
        t \in TablesOf({BaselineRow(w, m) : w \in WeeklySpendVals, m \in WeeklyMarginalVals},
                       "weekly_spend", TRUE)}
\* the three records of the threshold example, with either blended ROAS
ExampleFiles ==
    {ReadableFile(AnnualFrame137(<<AnnualRow137(1000, b[1], 300), AnnualRow137(1500, b[2], 220),
                                   AnnualRow137(2000, b[3], 180)>>), FixedBaseline) :
        b \in [1..3 -> ScanRoasVals]}

\* ------------------------------------------------------------------------
\* State machine
\* ------------------------------------------------------------------------
NotRun(file) ==
    /\ streamlit_data = file
    /\ annual_df = EmptyFrame
    /\ baseline_df = EmptyFrame
    /\ spend_range = <<0, 0>>
    /\ min_roas = DefaultMinRoas
    /\ analysis_type = DefaultAnalysisType
    /\ scenario_options = <<>>
    /\ scenario_idx = <<>>
    /\ filtered_df = EmptyFrame
    /\ summary = <<>>
    /\ metric_cards = <<>>
    /\ baseline_filtered = EmptyFrame
    /\ marginal_data = EmptyFrame
    /\ thresholds_data = <<>>
    /\ scenarios = <<>>
    /\ display_df = EmptyFrame
    /\ messages = <<>>
    /\ rendered = <<>>
    /\ outcome = "not_run"

Init == \E file \in PlainFiles \cup FailedFiles : NotRun(file)
InitScan == \E file \in Files137 \cup WeeklyFiles \cup FailedFiles : NotRun(file)
InitExample == \E file \in ExampleFiles \cup FailedFiles : NotRun(file)

\* the state the script leaves behind
Ran(env) ==
    /\ annual_df' = env.annual_df
    /\ baseline_df' = env.baseline_df
    /\ spend_range' = env.spend_range
    /\ min_roas' = env.min_roas
    /\ analysis_type' = env.analysis_type
    /\ scenario_options' = env.scenario_options
    /\ scenario_idx' = env.scenario_idx
    /\ filtered_df' = env.filtered_df
    /\ summary' = env.summary
    /\ metric_cards' = env.metric_cards
    /\ baseline_filtered' = env.baseline_filtered
    /\ marginal_data' = env.marginal_data
    /\ thresholds_data' = env.thresholds_data
    /\ scenarios' = env.scenarios
    /\ display_df' = env.display_df
    /\ messages' = env.messages
    /\ rendered' = env.rendered
    /\ outcome' = env.outcome
    /\ UNCHANGED streamlit_data

Prev == [options |-> scenario_options, idx |-> scenario_idx]
NoPrev == [options |-> <<>>, idx |-> <<>>]
WidgetsShown == outcome \in {"ok", "exception"} /\ "sidebar" \in Range(rendered)

\* values the spend slider can be dragged to
SliderValues(annual) ==
    {v \in SliderStops : /\ SliderMin(annual) <= v
                         /\ v <= SliderMax(annual)
                         /\ (v - SliderMin(annual)) % SLIDER_STEP = 0}

\* the browser opens the app: first execution, every widget at its default
FirstRun ==
    /\ outcome = "not_run"
    /\ Ran(Script(streamlit_data, TRUE, spend_range, min_roas, analysis_type, NoPrev))

MoveSpendSlider ==
    /\ WidgetsShown
    /\ \E lo \in SliderValues(annual_df), hi \in SliderValues(annual_df) :
        /\ lo <= hi
        /\ <<lo, hi>> # spend_range
        /\ Ran(Script(streamlit_data, FALSE, <<lo, hi>>, min_roas, analysis_type, Prev))

SelectMinRoas ==
    /\ WidgetsShown
    /\ \E k \in 1..Min2(NRoasChoices, Len(ROAS_OPTIONS)) :
        /\ ROAS_OPTIONS[k] # min_roas
        /\ Ran(Script(streamlit_data, FALSE, spend_range, ROAS_OPTIONS[k], analysis_type, Prev))

SelectAnalysisType ==
    /\ WidgetsShown
    /\ \E k \in 1..Len(ANALYSIS_TYPES) :
        /\ ANALYSIS_TYPES[k] # analysis_type
        /\ Ran(Script(streamlit_data, FALSE, spend_range, min_roas, ANALYSIS_TYPES[k], Prev))

SelectScenario ==
    /\ WidgetsShown
    /\ analysis_type = ANALYSIS_TYPES[3]
    /\ scenario_idx # <<>>
    /\ \E k \in 1..3, i \in 0..(Len(scenario_options) - 1) :
        /\ scenario_idx[k] # i
        /\ Ran(Script(streamlit_data, FALSE, spend_range, min_roas, analysis_type,
                      [options |-> scenario_options,
                       idx |-> [scenario_idx EXCEPT ![k] = i]]))

Next ==
    \/ FirstRun
    \/ MoveSpendSlider
    \/ SelectMinRoas
    \/ SelectAnalysisType
    \/ SelectScenario

Spec == Init /\ [][Next]_vars
SpecScan == InitScan /\ [][Next]_vars
SpecExample == InitExample /\ [][Next]_vars

\* ------------------------------------------------------------------------
\* Properties
\* ------------------------------------------------------------------------
Did(section) == section \in Range(rendered)
StrictlyIncreasing(f) == \A i \in DOMAIN f, j \in DOMAIN f : i < j => f[i] < f[j]

\* C1: the filtered view is exactly the sub-sequence, in table order, of the
\* records with lo <= spend <= hi (lo, hi in millions) and blended ROAS >= r_min,
\* both bounds inclusive.
C1_FilterExactSubsequence ==
    Did("filter") =>
        LET T == annual_df.rows
            F == filtered_df.rows
            keep == {i \in 1..Len(T) :
                        /\ spend_range[1] * Million <= T[i].total_annual_spend
                        /\ T[i].total_annual_spend <= spend_range[2] * Million
                        /\ T[i].blended_roas >= min_roas}
        IN  /\ filtered_df.columns = annual_df.columns
            /\ \E f \in [1..Len(F) -> 1..Len(T)] :
                /\ StrictlyIncreasing(f)
                /\ {f[i] : i \in 1..Len(F)} = keep
                /\ \A i \in 1..Len(F) : F[i] = T[f[i]]

\* a record on the lower spend bound and on the ROAS bound is returned while
\* another record of the table is not
C1_Witness ==
    /\ Did("filter")
    /\ spend_range[1] > 0
    /\ min_roas > 0
    /\ Len(filtered_df.rows) < Len(annual_df.rows)
    /\ \E i \in 1..Len(filtered_df.rows) :
        /\ filtered_df.rows[i].total_annual_spend = spend_range[1] * Million
        /\ filtered_df.rows[i].blended_roas = min_roas

\* the thresholds of a list that some scanned record is strictly below
Crossed(metrics, thresholds) ==
    SelectSeq(thresholds, LAMBDA t : \E i \in 1..Len(metrics) : metrics[i] # NaN /\ metrics[i] < t)
\* position of the first scanned record strictly below t
FirstCrossing(metrics, t) ==
    CHOOSE i \in 1..Len(metrics) :
        /\ metrics[i] # NaN /\ metrics[i] < t
        /\ \A j \in 1..(i - 1) : ~(metrics[j] # NaN /\ metrics[j] < t)

Scanned137 == Did("marginal_returns") /\ filtered_df.rows # <<>> /\ COL_137M \in filtered_df.columns
ScannedWeekly == Did("marginal_returns") /\ filtered_df.rows # <<>> /\ COL_137M \notin filtered_df.columns

\* one entry per crossed threshold, in threshold order, from the first record below it
EntriesFollowCrossings137 ==
    LET rows == marginal_data.rows
        metrics == Column(rows, "marginal_roas_from_137m")
        crossed == Crossed(metrics, THRESHOLDS_137M)
    IN  /\ Len(thresholds_data) = Len(crossed)
        /\ \A k \in 1..Len(crossed) :
            LET e == thresholds_data[k]
                r == rows[FirstCrossing(metrics, crossed[k])]
            IN  /\ Ratio1Value(e.Marginal_ROAS_Threshold) = crossed[k]
                /\ Money1Value(e.Annual_Spend) = r.total_annual_spend
                /\ Money1Value(e.Annual_Sales) = r.total_annual_sales
                /\ Ratio2Value(e.Blended_ROAS) = r.blended_roas
EntriesFollowCrossingsWeekly ==
    LET rows == baseline_filtered.rows
        metrics == Column(rows, "marginal_roas")
        crossed == Crossed(metrics, THRESHOLDS_WEEKLY)
    IN  /\ Len(thresholds_data) = Len(crossed)
        /\ \A k \in 1..Len(crossed) :
            LET e == thresholds_data[k]
                r == rows[FirstCrossing(metrics, crossed[k])]
            IN  /\ Ratio1Value(e.ROAS_Threshold) = crossed[k]
                /\ e.Weekly_Spend = r.weekly_spend * WEEKLY_UNIT
                /\ e.Annual_Spend = r.weekly_spend * WEEKLY_UNIT * WEEKS
                /\ e.Annual_Sales = r.sales * WEEKLY_UNIT * WEEKS
\* every entry reports the crossing record's spend minus the 137.2M baseline
IncrementalReported ==
    \A k \in 1..Len(thresholds_data) :
        /\ "Incremental_from_137M" \in DOMAIN thresholds_data[k]
        /\ Money1Value(thresholds_data[k].Incremental_from_137M)
             = Money1Value(thresholds_data[k].Annual_Spend) - Baseline137

\* C2 as stated: in both branches of the threshold analysis the result has an entry
\* for a threshold iff a scanned record is strictly below it, taken from the first
\* such record, in threshold order, with incremental spend = spend - 137,200,000.
C2_Original ==
    /\ Scanned137 => EntriesFollowCrossings137 /\ IncrementalReported
    /\ ScannedWeekly => EntriesFollowCrossingsWeekly /\ IncrementalReported

\* C2 (amended): as C2, but the incremental spend from the 137,200,000 baseline is
\* reported only when the table has marginal_roas_from_137m; the fallback scan of the
\* baseline table reports weekly spend, spend * 52 and sales * 52 instead.
C2_ScanEntries ==
    /\ Scanned137 => EntriesFollowCrossings137 /\ IncrementalReported
    /\ ScannedWeekly =>
        /\ EntriesFollowCrossingsWeekly
        /\ \A k \in 1..Len(thresholds_data) :
               "Incremental_from_137M" \notin DOMAIN thresholds_data[k]

\* a scan that reports some thresholds and omits others, one record sitting exactly
\* on a threshold
C2_Witness ==
    /\ Scanned137
    /\ thresholds_data # <<>>
    /\ Len(thresholds_data) < Len(THRESHOLDS_137M)
    /\ \E i \in 1..Len(marginal_data.rows) :
        marginal_data.rows[i].marginal_roas_from_137m = 200
    /\ Len(marginal_data.rows) < Len(filtered_df.rows)

\* C3 as stated: the ROAS reported in every emitted tuple is strictly less than the
\* tuple's threshold.
C3_Original ==
    Scanned137 =>
        \A k \in 1..Len(thresholds_data) :
            Ratio2Value(thresholds_data[k].Blended_ROAS)
                < Ratio1Value(thresholds_data[k].Marginal_ROAS_Threshold)

\* C3 (amended): for every emitted tuple the scanned metric marginal_roas_from_137m of
\* the crossing record is strictly less than the threshold, and the record just before
\* it in the scanned table (filtered, NaN rows dropped) has the metric >= threshold or
\* does not exist; the reported Blended ROAS is the record's blended_roas.
C3_CrossingIsFirstBelow ==
    Scanned137 =>
        \A k \in 1..Len(thresholds_data) :
            LET e == thresholds_data[k]
                t == Ratio1Value(e.Marginal_ROAS_Threshold)
                rows == marginal_data.rows
            IN  \E i \in 1..Len(rows) :
                    /\ Money1Value(e.Annual_Spend) = rows[i].total_annual_spend
                    /\ Ratio2Value(e.Blended_ROAS) = rows[i].blended_roas
                    /\ rows[i].marginal_roas_from_137m < t
                    /\ i > 1 => rows[i - 1].marginal_roas_from_137m >= t

\* a crossing that is not the first scanned record, reported with a blended ROAS
\* that is not below the threshold
C3_Witness ==
    /\ Scanned137
    /\ \E k \in 1..Len(thresholds_data) :
        /\ Money1Value(thresholds_data[k].Annual_Spend)
             > marginal_data.rows[1].total_annual_spend
        /\ Ratio2Value(thresholds_data[k].Blended_ROAS)
             >= Ratio1Value(thresholds_data[k].Marginal_ROAS_Threshold)

ExampleScanned ==
    /\ Scanned137
    /\ Len(marginal_data.rows) = 3
    /\ Column(marginal_data.rows, "total_annual_spend") = <<1000, 1500, 2000>>
    /\ Column(marginal_data.rows, "marginal_roas_from_137m") = <<300, 220, 180>>
CrossingsAt(entries) ==
    [k \in 1..Len(entries) |->
        <<Ratio1Value(entries[k].Marginal_ROAS_Threshold), Money1Value(entries[k].Annual_Spend)>>]

\* C4 as stated: on the records (100M, 3.0), (150M, 2.2), (200M, 1.8) and the
\* thresholds 3.0, 2.5, 2.0 the scanner returns crossings for exactly 2.5 at 150M and
\* 2.0 at 200M and omits 3.0.
C4_Original ==
    ExampleScanned =>
        CrossingsAt(Scan137(marginal_data.rows, <<300, 250, 200>>))
            = << <<250, 1500>>, <<200, 2000>> >>

\* C4 (amended): on these records and thresholds the scanner returns three crossings,
\* 3.0 at 150M (2.2 is the first ROAS strictly below 3.0), 2.5 at 150M and 2.0 at
\* 200M; the script's own list 3.0 .. 0.5 gives the same three.
C4_Example ==
    ExampleScanned =>
        /\ CrossingsAt(Scan137(marginal_data.rows, <<300, 250, 200>>))
             = << <<300, 1500>>, <<250, 1500>>, <<200, 2000>> >>
        /\ CrossingsAt(thresholds_data) = << <<300, 1500>>, <<250, 1500>>, <<200, 2000>> >>

C4_Witness == ExampleScanned /\ Len(thresholds_data) = 3

\* C5: with an empty filtered table every analysis mode completes with the warning
\* shown, and neither the summarizer nor a record lookup is evaluated.
C5_Claim ==
    (Did("filter") /\ filtered_df.rows = <<>>) =>
        /\ outcome = "ok"
        /\ MSG_NO_MATCH \in Range(messages)
        /\ summary = <<>>

\* C6: for a non-empty filtered table the key metrics row reports the record count,
\* the maximum sales and ROAS with their deltas against the minima of the unfiltered
\* table, and as optimal spend the spend of the first record whose ROAS is the maximum.
C6_Summary ==
    (Did("key_metrics") /\ filtered_df.rows # <<>>) =>
        LET F == filtered_df.rows
            T == annual_df.rows
            m == summary[1]
        IN  /\ Len(summary) = 1 /\ Len(metric_cards) = 4
            /\ metric_cards[1].value = Len(F)
            /\ \A i \in 1..Len(F) : F[i].total_annual_sales <= m.max_sales
            /\ \E i \in 1..Len(F) : F[i].total_annual_sales = m.max_sales
            /\ \A i \in 1..Len(F) : F[i].blended_roas <= m.best_roas
            /\ \E i \in 1..Len(F) :
                /\ F[i].blended_roas = m.best_roas
                /\ \A j \in 1..(i - 1) : F[j].blended_roas < m.best_roas
                /\ F[i].total_annual_spend = m.optimal_spend
            /\ Money1Value(metric_cards[2].value) = m.max_sales
            /\ \E i \in 1..Len(T) :
                /\ \A j \in 1..Len(T) : T[i].total_annual_sales <= T[j].total_annual_sales
                /\ Money1Value(metric_cards[2].delta) = m.max_sales - T[i].total_annual_sales
            /\ Ratio2Value(metric_cards[3].value) = m.best_roas
            /\ \E i \in 1..Len(T) :
                /\ \A j \in 1..Len(T) : T[i].blended_roas <= T[j].blended_roas
                /\ Ratio2Value(metric_cards[3].delta) = m.best_roas - T[i].blended_roas
            /\ Money1Value(metric_cards[4].value) = m.optimal_spend
            /\ (F = <<AnnualRow(1000, 250), AnnualRow(2000, 200)>>) =>
                   m = [max_sales |-> 4000, best_roas |-> 250, optimal_spend |-> 1000]

\* the example table (100M, 250M, 2.5), (200M, 400M, 2.0) is summarized
C6_Witness ==
    /\ Did("key_metrics")
    /\ filtered_df.rows = <<AnnualRow(1000, 250), AnnualRow(2000, 200)>>
    /\ summary # <<>>

\* C7: in Scenario Comparison a non-empty filtered table suffices: every scenario's
\* target has a record within 1 percent, and the three rows come from the first such
\* records, in scenario order.
C7_Claim ==
    (Did("scenario_comparison") /\ filtered_df.rows # <<>>) =>
        /\ outcome = "ok"
        /\ Len(scenarios) = 3
        /\ \A k \in 1..3 :
            LET target == scenario_options[scenario_idx[k] + 1]
                F == filtered_df.rows
            IN  \E i \in 1..Len(F) :
                    /\ 100 * F[i].total_annual_spend >= 99 * target
                    /\ 100 * F[i].total_annual_spend <= 101 * target
                    /\ \A j \in 1..(i - 1) :
                        ~(/\ 100 * F[j].total_annual_spend >= 99 * target
                          /\ 100 * F[j].total_annual_spend <= 101 * target)
                    /\ scenarios[k] = ScenarioRow(k, F[i])

\* C8: when the file is absent or unreadable the run halts with a message, nothing
\* after the load is evaluated, and the load is attempted once.
C8_FailedLoadHalts ==
    (outcome # "not_run" /\ streamlit_data.status # "ok") =>
        /\ outcome \in {"stopped", "exception"}
        /\ streamlit_data.status = "absent" => outcome = "stopped" /\ messages = <<MSG_NOT_FOUND>>
        /\ streamlit_data.status = "unreadable" => outcome = "exception" /\ messages # <<>>
        /\ rendered = <<"set_page_config", "load_pipeline_data">>
        /\ filtered_df = EmptyFrame /\ metric_cards = <<>> /\ summary = <<>>
        /\ thresholds_data = <<>> /\ scenarios = <<>> /\ display_df = EmptyFrame

C8_Witness == outcome = "stopped" /\ streamlit_data.status = "absent"

\* C9: after any sequence of interactions the loaded Scenario Table and Baseline
\* Table equal the persisted ones; display columns go to a derived copy.
C9_LoadedTablesUnchanged ==
    (outcome # "not_run" /\ streamlit_data.status = "ok") =>
        /\ annual_df = streamlit_data.annual_projections
        /\ baseline_df = streamlit_data.baseline_projections

\* Data Table mode has added the display columns to a non-empty copy
C9_Witness ==
    /\ Did("data_table")
    /\ display_df.rows # <<>>
    /\ DISPLAY_COL_137M \in display_df.columns
    /\ Len(display_df.rows) < Len(annual_df.rows)

\* C10: filtering the filtered view again with the same arguments changes nothing.
C10_FilterIdempotent ==
    Did("filter") => FilterEngine(filtered_df, spend_range, min_roas) = filtered_df

\* a filter run that kept some records and dropped others
C10_Witness ==
    /\ Did("filter")
    /\ filtered_df.rows # <<>>
    /\ Len(filtered_df.rows) < Len(annual_df.rows)
    /\ min_roas > 0

\* the script has run with every control at its default
AtDefaults ==
    /\ Did("filter")
    /\ spend_range = DefaultSpendRange(annual_df)
    /\ min_roas = DefaultMinRoas

\* C11: with the controls at their defaults the default range (0, max // 1,000,000)
\* lies within the slider bounds [min // 1,000,000, max // 1,000,000] and, in currency
\* units, encloses every record's spend, so the initial filtered view is the whole
\* Scenario Table, the record with the maximum spend included.
C11_Claim ==
    AtDefaults =>
        /\ SliderMin(annual_df) <= spend_range[1]
        /\ spend_range[2] <= SliderMax(annual_df)
        /\ \A i \in 1..Len(annual_df.rows) :
            /\ spend_range[1] * Million <= annual_df.rows[i].total_annual_spend
            /\ annual_df.rows[i].total_annual_spend <= spend_range[2] * Million
        /\ filtered_df = annual_df

====
